---------------------------- MODULE Spec2Model ----------------------------
(***************************************************************************)
(* gh-tagger (src/main.py): computes the next SemVer tag of a repository   *)
(* from its existing tags, a bump level and a release channel, and         *)
(* publishes it as a git tag.                                              *)
(*                                                                         *)
(* Strings are sequences of one-character strings, so that startswith,     *)
(* slicing, split, str() and int() are modelled by what they do.  Tag      *)
(* names are over Alphabet, which has no '+': build metadata is outside    *)
(* the names the model enumerates.                                         *)
(***************************************************************************)
EXTENDS Integers, Sequences, FiniteSets, TLC

(***************************************************************************)
(* Characters and Python string operations                                 *)
(***************************************************************************)

\* The characters of tag names, in ASCII order (str comparison is by code point).
Alphabet ==
    << "-", ".", "0", "1", "2", "3", "4", "5", "6", "7", "8", "9",
       "a", "b", "c", "d", "e", "f", "g", "h", "i", "j", "k", "l", "m",
       "n", "o", "p", "q", "r", "s", "t", "u", "v", "w", "x", "y", "z" >>

Digits == << "0", "1", "2", "3", "4", "5", "6", "7", "8", "9" >>

IsDigit(c) == \E i \in 1..10 : Digits[i] = c

DigitValue(c) == (CHOOSE i \in 1..10 : Digits[i] = c) - 1

Ord(c) == CHOOSE i \in 1..Len(Alphabet) : Alphabet[i] = c

\* a.startswith(p)
StartsWith(a, p) == Len(p) <= Len(a) /\ SubSeq(a, 1, Len(p)) = p

\* a[1:]
DropFirst(a) == IF a = <<>> THEN <<>> ELSE Tail(a)

\* index of the first occurrence of character c in a, 0 when there is none
IndexOf(a, c) ==
    IF \E i \in 1..Len(a) : a[i] = c
    THEN CHOOSE i \in 1..Len(a) : a[i] = c /\ \A j \in 1..(i - 1) : a[j] # c
    ELSE 0

\* a.split(c): the pieces between the occurrences of c (always at least one piece)
RECURSIVE Split(_, _)
Split(a, c) ==
    LET i == IndexOf(a, c)
    IN  IF i = 0 THEN << a >>
        ELSE << SubSeq(a, 1, i - 1) >> \o Split(SubSeq(a, i + 1, Len(a)), c)

\* the value of a non-empty string of decimal digits
RECURSIVE DigitsToNat(_)
DigitsToNat(a) ==
    IF a = <<>> THEN 0
    ELSE 10 * DigitsToNat(SubSeq(a, 1, Len(a) - 1)) + DigitValue(a[Len(a)])

AllDigits(a) == a # <<>> /\ \A i \in 1..Len(a) : IsDigit(a[i])

\* str(n) for n >= 0
RECURSIVE NatToStr(_)
NatToStr(n) ==
    IF n < 10 THEN << Digits[n + 1] >>
    ELSE NatToStr(n \div 10) \o << Digits[(n % 10) + 1] >>

\* int(a) succeeds: an optional sign and decimal digits
IntParses(a) ==
    \/ AllDigits(a)
    \/ Len(a) > 1 /\ a[1] = "-" /\ AllDigits(Tail(a))

\* int(a), when IntParses(a)
PyInt(a) == IF a[1] = "-" THEN 0 - DigitsToNat(Tail(a)) ELSE DigitsToNat(a)

\* str comparison a < b (lexicographic by code point)
RECURSIVE StrLess(_, _)
StrLess(a, b) ==
    IF b = <<>> THEN FALSE
    ELSE IF a = <<>> THEN TRUE
    ELSE IF a[1] # b[1] THEN Ord(a[1]) < Ord(b[1])
    ELSE StrLess(Tail(a), Tail(b))

(***************************************************************************)
(* The semver library as main.py uses it (semver.VersionInfo)              *)
(***************************************************************************)

\* a numeric identifier: digits without a leading zero
IsNumericId(a) == AllDigits(a) /\ (Len(a) = 1 \/ a[1] # "0")

\* a character of a prerelease identifier: [0-9A-Za-z-]
IsIdChar(c) == c # "." /\ \E i \in 1..Len(Alphabet) : Alphabet[i] = c

\* a prerelease identifier: numeric without leading zero, or alphanumeric
IsPrereleaseId(a) ==
    /\ a # <<>>
    /\ \A i \in 1..Len(a) : IsIdChar(a[i])
    /\ AllDigits(a) => IsNumericId(a)

\* the text before the first '-' (MAJOR.MINOR.PATCH of a version string)
CorePart(s) == LET i == IndexOf(s, "-") IN IF i = 0 THEN s ELSE SubSeq(s, 1, i - 1)

\* the text after the first '-' (the prerelease), <<>> when there is no '-'
PrereleasePart(s) ==
    LET i == IndexOf(s, "-") IN IF i = 0 THEN <<>> ELSE SubSeq(s, i + 1, Len(s))

\* semver.VersionInfo.isvalid(s): MAJOR.MINOR.PATCH[-PRERELEASE]
IsValid(s) ==
    LET core == Split(CorePart(s), ".")
        pre  == Split(PrereleasePart(s), ".")
    IN  /\ Len(core) = 3
        /\ \A i \in 1..3 : IsNumericId(core[i])
        /\ IndexOf(s, "-") # 0 => \A i \in 1..Len(pre) : IsPrereleaseId(pre[i])

\* semver.VersionInfo(major, minor, patch, prerelease); prerelease <<>> is None
VersionInfo(major, minor, patch, prerelease) ==
    [major |-> major, minor |-> minor, patch |-> patch, prerelease |-> prerelease]

\* semver.VersionInfo.parse(s), when IsValid(s) (it raises ValueError otherwise)
Parse(s) ==
    LET core == Split(CorePart(s), ".")
    IN  VersionInfo(DigitsToNat(core[1]), DigitsToNat(core[2]), DigitsToNat(core[3]),
                    PrereleasePart(s))

\* str(version)
Str(ver) ==
    NatToStr(ver.major) \o <<".">> \o NatToStr(ver.minor) \o <<".">> \o NatToStr(ver.patch)
      \o (IF ver.prerelease = <<>> THEN <<>> ELSE <<"-">> \o ver.prerelease)

\* comparison of two prerelease identifiers: numeric ones by value and below
\* alphanumeric ones, alphanumeric ones as strings; -1, 0 or 1
CmpPrereleaseId(a, b) ==
    IF AllDigits(a) /\ AllDigits(b)
    THEN (IF DigitsToNat(a) < DigitsToNat(b) THEN -1
          ELSE IF DigitsToNat(a) > DigitsToNat(b) THEN 1 ELSE 0)
    ELSE IF AllDigits(a) THEN -1
    ELSE IF AllDigits(b) THEN 1
    ELSE IF StrLess(a, b) THEN -1
    ELSE IF StrLess(b, a) THEN 1 ELSE 0

\* comparison of two prerelease strings, identifier by identifier; when one is
\* a prefix of the other the one with more identifiers is greater
RECURSIVE CmpIds(_, _)
CmpIds(p, q) ==
    IF p = <<>> /\ q = <<>> THEN 0
    ELSE IF p = <<>> THEN -1
    ELSE IF q = <<>> THEN 1
    ELSE LET c == CmpPrereleaseId(p[1], q[1])
         IN  IF c # 0 THEN c ELSE CmpIds(Tail(p), Tail(q))

\* VersionInfo.compare: major, minor, patch, then a version without prerelease
\* above every prerelease of the same core, then the prerelease; -1, 0 or 1
Compare(a, b) ==
    IF a.major # b.major THEN (IF a.major < b.major THEN -1 ELSE 1)
    ELSE IF a.minor # b.minor THEN (IF a.minor < b.minor THEN -1 ELSE 1)
    ELSE IF a.patch # b.patch THEN (IF a.patch < b.patch THEN -1 ELSE 1)
    ELSE IF a.prerelease = b.prerelease THEN 0
    ELSE IF a.prerelease = <<>> THEN 1
    ELSE IF b.prerelease = <<>> THEN -1
    ELSE CmpIds(Split(a.prerelease, "."), Split(b.prerelease, "."))

\* bump_major / bump_minor / bump_patch: the prerelease is dropped
Bump(ver, bump) ==
    CASE bump = "major" -> VersionInfo(ver.major + 1, 0, 0, <<>>)
      [] bump = "minor" -> VersionInfo(ver.major, ver.minor + 1, 0, <<>>)
      [] bump = "patch" -> VersionInfo(ver.major, ver.minor, ver.patch + 1, <<>>)

(***************************************************************************)
(* src/main.py                                                             *)
(***************************************************************************)

\* the values of --channel (argparse choices) as text
BETA == <<"b", "e", "t", "a">>
RELEASE_CANDIDATE == <<"r", "e", "l", "e", "a", "s", "e", "-", "c", "a", "n", "d", "i", "d", "a", "t", "e">>
RELEASE == <<"r", "e", "l", "e", "a", "s", "e">>
RC == <<"r", "c">>

Channels == { BETA, RELEASE_CANDIDATE, RELEASE }

Bumps == { "major", "minor", "patch" }

\* VTags without the startswith('v') test
VTagsUnfiltered(names) == names

\* the tags the base resolver looks at: t.name.startswith('v')
VTags(names) == { t \in names : StartsWith(t, <<"v">>) }

\* the sort key of a tag: its version when name[1:] is valid, 0.0.0 otherwise
SortKey(name) ==
    IF IsValid(DropFirst(name)) THEN Parse(DropFirst(name))
    ELSE VersionInfo(0, 0, 0, <<>>)

\* sorted(..., key=SortKey, reverse=True) on tags paired with their keys: a
\* list of the names, keys descending.  Names with equal keys (the invalid
\* ones, and v0.0.0) keep the order of the tag list, which the loop below
\* cannot observe: it skips the invalid ones.
RECURSIVE SortedReverse(_)
SortedReverse(keyed) ==
    IF keyed = {} THEN <<>>
    ELSE LET top == CHOOSE t \in keyed : \A u \in keyed : Compare(u.key, t.key) <= 0
         IN  << top.name >> \o SortedReverse(keyed \ {top})

\* the tags of the list comprehension, each with its sort key
Keyed(names) == { [name |-> t, key |-> SortKey(t)] : t \in VTags(names) }

\* ChannelMatches with the beta arm taking any version, prereleases included
ChannelMatchesAnyForBeta(ver, channel) ==
    CASE channel = BETA -> TRUE
      [] channel = RELEASE_CANDIDATE ->
            ver.prerelease # <<>> /\ StartsWith(ver.prerelease, BETA)
      [] channel = RELEASE ->
            ver.prerelease # <<>> /\ StartsWith(ver.prerelease, RC)
      [] OTHER -> FALSE

\* the test of one match-case arm on a parsed version; an unknown channel
\* matches no arm
ChannelMatches(ver, channel) ==
    CASE channel = BETA -> ver.prerelease = <<>>
      [] channel = RELEASE_CANDIDATE ->
            ver.prerelease # <<>> /\ StartsWith(ver.prerelease, BETA)
      [] channel = RELEASE ->
            ver.prerelease # <<>> /\ StartsWith(ver.prerelease, RC)
      [] OTHER -> FALSE

\* the for loop over the sorted tags: the first version whose arm matches;
\* a name that does not parse is skipped; 0.1.0 when the loop ends
RECURSIVE FirstMatch(_, _)
FirstMatch(tags, channel) ==
    IF tags = <<>> THEN VersionInfo(0, 1, 0, <<>>)
    ELSE IF IsValid(DropFirst(tags[1]))
            /\ ChannelMatches(Parse(DropFirst(tags[1])), channel)
         THEN Parse(DropFirst(tags[1]))
         ELSE FirstMatch(Tail(tags), channel)

get_base_version_by_channel(names, channel) ==
    FirstMatch(SortedReverse(Keyed(names)), channel)

\* 'rc' if channel == 'release-candidate' else channel
ChannelPrefix(channel) == IF channel = RELEASE_CANDIDATE THEN RC ELSE channel

\* CountedTags with the prefix "v{base_version}-", the channel label left out
CountedTagsAnyLabel(names, base_version, channel) ==
    { t \in names :
        /\ StartsWith(t, <<"v">> \o base_version \o <<"-">>)
        /\ IsValid(DropFirst(t))
        /\ Parse(DropFirst(t)).prerelease # <<>>
        /\ Len(Split(Parse(DropFirst(t)).prerelease, ".")) >= 2
        /\ IntParses(Split(Parse(DropFirst(t)).prerelease, ".")[2]) }

\* the tags get_last_prerelease_number counts, for the prefix
\* "v{base_version}-{channel_prefix}.": the name starts with the prefix,
\* name[1:] parses, and int() of the second '.'-separated piece of the
\* prerelease succeeds
CountedTags(names, base_version, channel) ==
    { t \in names :
        /\ StartsWith(t, <<"v">> \o base_version \o <<"-">>
                           \o ChannelPrefix(channel) \o <<".">>)
        /\ IsValid(DropFirst(t))
        /\ Parse(DropFirst(t)).prerelease # <<>>
        /\ Len(Split(Parse(DropFirst(t)).prerelease, ".")) >= 2
        /\ IntParses(Split(Parse(DropFirst(t)).prerelease, ".")[2]) }

\* max_num starts at 0 and takes max(max_num, num) for every counted tag
get_last_prerelease_number(names, base_version, channel) ==
    LET nums == { PyInt(Split(Parse(DropFirst(t)).prerelease, ".")[2]) :
                    t \in CountedTags(names, base_version, channel) } \cup {0}
    IN  CHOOSE n \in nums : \A m \in nums : m <= n

\* generate_new_version(args, repo), names being repo.get_tags()
\* the rest of generate_new_version, base being the resolved base version
BumpAndLabel(names, base, bump, channel) ==
    LET bumped_version == Bump(base, bump)
        core_version   == Split(Str(bumped_version), "-")[1]
        last_num       == get_last_prerelease_number(names, core_version, channel)
    IN  IF channel # RELEASE
        THEN [bumped_version EXCEPT
                !.prerelease = ChannelPrefix(channel) \o <<".">> \o NatToStr(last_num + 1)]
        ELSE bumped_version

\* generate_new_version(args, repo), names being repo.get_tags()
generate_new_version(names, bump, channel) ==
    BumpAndLabel(names, get_base_version_by_channel(names, channel), bump, channel)

\* f"v{new_version}"
TagName(ver) == <<"v">> \o Str(ver)

(***************************************************************************)
(* The repository and the runs of main()                                   *)
(***************************************************************************)

VARIABLES
    refs,            \* the names repo.get_tags() returns: the tag refs of the repository
    tag_objects,     \* the tag objects the current run created (create_git_tag)
    output,          \* the new_tag values the current run wrote to GITHUB_OUTPUT
    pc,              \* where the current run of main() is
    args,            \* parse_args(): bump, channel, dry_run
    base_version,    \* the base version main() prints: get_base_version_by_channel(repo, channel)
    new_version,     \* what generate_new_version returned
    exit_status,     \* the status the run ended with, when pc = "exit"
    runs,            \* how many runs were started
    last_published   \* the request and version of the latest run whose ref was created

vars == << refs, tag_objects, output, pc, args, base_version, new_version,
           exit_status, runs, last_published >>

\* how many tags the repository holds before the first run, at most
MaxInitialTags == 3

\* how many times main() is run, at most
MaxRuns == 2

\* the tag names a repository may hold before the first run:
\*   v1.0.0  v1.4.7  v1.1.0-rc.1  v1.0.1-beta.1  v2.0.0-beta.1
\*   v0.1.1-beta.x  v0.1.1-beta.2.x  v0.1.1-beta.-1
\*   v0.9  not-a-version  1.2.3  x2.0.0
TagUniverse ==
    { <<"v", "1", ".", "0", ".", "0">>,
      <<"v", "1", ".", "4", ".", "7">>,
      <<"v", "1", ".", "1", ".", "0", "-", "r", "c", ".", "1">>,
      <<"v", "1", ".", "0", ".", "1", "-", "b", "e", "t", "a", ".", "1">>,
      <<"v", "2", ".", "0", ".", "0", "-", "b", "e", "t", "a", ".", "1">>,
      <<"v", "0", ".", "1", ".", "1", "-", "b", "e", "t", "a", ".", "x">>,
      <<"v", "0", ".", "1", ".", "1", "-", "b", "e", "t", "a", ".", "2", ".", "x">>,
      <<"v", "0", ".", "1", ".", "1", "-", "b", "e", "t", "a", ".", "-", "1">>,
      <<"v", "0", ".", "9">>,
      <<"n", "o", "t", "-", "a", "-", "v", "e", "r", "s", "i", "o", "n">>,
      <<"1", ".", "2", ".", "3">>,
      <<"x", "2", ".", "0", ".", "0">> }

InitialTagSets == { S \in SUBSET TagUniverse : Cardinality(S) <= MaxInitialTags }

\* no version yet
NoVersion == VersionInfo(-1, -1, -1, <<>>)

\* no run has published yet
NothingPublished == [bump |-> "none", channel |-> <<>>, version |-> NoVersion]

\* new_tag = f"v{new_version}"
new_tag == TagName(new_version)

\* no run has started
NotStarted ==
    /\ tag_objects = {}
    /\ output = <<>>
    /\ pc = "start"
    /\ args = [bump |-> "patch", channel |-> RELEASE, dry_run |-> FALSE]
    /\ base_version = NoVersion
    /\ new_version = NoVersion
    /\ exit_status = 0
    /\ runs = 0
    /\ last_published = NothingPublished

Init ==
    /\ refs \in InitialTagSets
    /\ NotStarted

\* a new process: args = parse_args()
ParseArgs(bump, channel, dry_run) ==
    /\ runs' = runs + 1
    /\ args' = [bump |-> bump, channel |-> channel, dry_run |-> dry_run]
    /\ pc' = "parsed"
    /\ tag_objects' = {}
    /\ output' = <<>>
    /\ base_version' = NoVersion
    /\ new_version' = NoVersion
    /\ exit_status' = 0
    /\ UNCHANGED << refs, last_published >>

\* except Exception: print, sys.exit(1)
Raise ==
    /\ pc' = "exit"
    /\ exit_status' = 1

\* Github(...).get_repo(args.repo) or repo.get_tags() raises
GetRepoFails ==
    /\ pc = "parsed"
    /\ Raise
    /\ UNCHANGED << refs, tag_objects, output, args, base_version, new_version,
                    runs, last_published >>

\* new_version = generate_new_version(args, repo) and the two prints, the first
\* of the base version get_base_version_by_channel returns when called again
GenerateNewVersion ==
    /\ pc = "parsed"
    /\ base_version' = get_base_version_by_channel(refs, args.channel)
    /\ new_version' = generate_new_version(refs, args.bump, args.channel)
    /\ pc' = "generated"
    /\ UNCHANGED << refs, tag_objects, output, args, exit_status, runs, last_published >>

\* the dry-run test always failing
DryRunIgnored == FALSE

\* the branch taken when args.dry_run is set: only a print
DryRunBranch == args.dry_run

\* else: print, and main returns
DryRun ==
    /\ pc = "generated"
    /\ DryRunBranch
    /\ pc' = "exit"
    /\ exit_status' = 0
    /\ UNCHANGED << refs, tag_objects, output, args, base_version, new_version,
                    runs, last_published >>

\* repo.create_git_tag(tag=new_tag, ...) returns
CreateGitTag ==
    /\ pc = "generated"
    /\ ~DryRunBranch
    /\ tag_objects' = tag_objects \cup {new_tag}
    /\ pc' = "tagged"
    /\ UNCHANGED << refs, output, args, base_version, new_version, exit_status,
                    runs, last_published >>

\* repo.create_git_tag raises
CreateGitTagFails ==
    /\ pc = "generated"
    /\ ~DryRunBranch
    /\ Raise
    /\ UNCHANGED << refs, tag_objects, output, args, base_version, new_version,
                    runs, last_published >>

\* repo.create_git_ref(f"refs/tags/{new_tag}", args.sha) returns; the host
\* refuses a ref that exists
CreateGitRef ==
    /\ pc = "tagged"
    /\ new_tag \notin refs
    /\ refs' = refs \cup {new_tag}
    /\ last_published' = [bump |-> args.bump, channel |-> args.channel,
                          version |-> new_version]
    /\ pc' = "reffed"
    /\ UNCHANGED << tag_objects, output, args, base_version, new_version,
                    exit_status, runs >>

\* repo.create_git_ref raises
CreateGitRefFails ==
    /\ pc = "tagged"
    /\ Raise
    /\ UNCHANGED << refs, tag_objects, output, args, base_version, new_version,
                    runs, last_published >>

\* fh.write(f'new_tag={new_tag}\n'), the print, and main returns
WriteOutput ==
    /\ pc = "reffed"
    /\ output' = Append(output, new_tag)
    /\ pc' = "exit"
    /\ exit_status' = 0
    /\ UNCHANGED << refs, tag_objects, args, base_version, new_version,
                    runs, last_published >>

\* os.environ['GITHUB_OUTPUT'] or open() raises
WriteOutputFails ==
    /\ pc = "reffed"
    /\ Raise
    /\ UNCHANGED << refs, tag_objects, output, args, base_version, new_version,
                    runs, last_published >>

\* the first run of main() on the repository
FirstRun(bump, channel, dry_run) ==
    /\ pc = "start"
    /\ ParseArgs(bump, channel, dry_run)

\* a later run, started after the one before it has ended (runs are serialized)
LaterRun(bump, channel, dry_run) ==
    /\ pc = "exit"
    /\ runs < MaxRuns
    /\ ParseArgs(bump, channel, dry_run)

\* the steps of one run of main()
Step ==
    \/ GetRepoFails
    \/ GenerateNewVersion
    \/ DryRun
    \/ CreateGitTag
    \/ CreateGitTagFails
    \/ CreateGitRef
    \/ CreateGitRefFails
    \/ WriteOutput
    \/ WriteOutputFails

\* one run of main() on a repository with any initial tags
Next ==
    \/ \E bump \in Bumps, channel \in Channels, dry_run \in BOOLEAN :
          FirstRun(bump, channel, dry_run)
    \/ Step

Spec == Init /\ [][Next]_vars

\* the tags of the release lines the successive runs start from:
\*   v1.0.0  v1.0.1-beta.1  v2.0.0-beta.1  v1.1.0-rc.1  v0.1.1-beta.2.x
LineTags ==
    { <<"v", "1", ".", "0", ".", "0">>,
      <<"v", "1", ".", "0", ".", "1", "-", "b", "e", "t", "a", ".", "1">>,
      <<"v", "2", ".", "0", ".", "0", "-", "b", "e", "t", "a", ".", "1">>,
      <<"v", "1", ".", "1", ".", "0", "-", "r", "c", ".", "1">>,
      <<"v", "0", ".", "1", ".", "1", "-", "b", "e", "t", "a", ".", "2", ".", "x">> }

InitRuns ==
    /\ refs \in SUBSET LineTags
    /\ NotStarted

\* successive runs of main() on one repository
NextRuns ==
    \/ \E bump \in Bumps, channel \in Channels, dry_run \in BOOLEAN :
          FirstRun(bump, channel, dry_run)
    \/ \E bump \in Bumps, channel \in Channels, dry_run \in BOOLEAN :
          LaterRun(bump, channel, dry_run)
    \/ Step

SpecRuns == InitRuns /\ [][NextRuns]_vars

\* a channel name outside the argparse choices
ALPHA == <<"a", "l", "p", "h", "a">>

AnyChannels == Channels \cup {ALPHA}

\* generate_new_version called directly, with any channel name
CallGenerate(bump, channel) ==
    /\ pc \in {"start", "returned"}
    /\ args' = [bump |-> bump, channel |-> channel, dry_run |-> FALSE]
    /\ base_version' = get_base_version_by_channel(refs, channel)
    /\ new_version' = generate_new_version(refs, bump, channel)
    /\ pc' = "returned"
    /\ UNCHANGED << refs, tag_objects, output, exit_status, runs, last_published >>

NextEngine == \E bump \in Bumps, channel \in AnyChannels : CallGenerate(bump, channel)

SpecEngine == Init /\ [][NextEngine]_vars

(***************************************************************************)
(* Vocabulary of the properties                                            *)
(***************************************************************************)

\* the versions of the tags named "v" + a valid semantic version
ValidVersions(names) ==
    { Parse(DropFirst(t)) : t \in { u \in names : StartsWith(u, <<"v">>) /\ IsValid(DropFirst(u)) } }

\* the versions of the tags read as the specification's parser reads them: one
\* leading 'v' stripped when present, the whole name otherwise
LenientCandidate(name) == IF StartsWith(name, <<"v">>) THEN DropFirst(name) ELSE name

LenientVersions(names) ==
    { Parse(LenientCandidate(t)) : t \in { u \in names : IsValid(LenientCandidate(u)) } }

\* the version of highest precedence in a non-empty set of versions
Highest(versions) == CHOOSE ver \in versions : \A u \in versions : Compare(u, ver) <= 0

Core(ver) == << ver.major, ver.minor, ver.patch >>

\* the first identifier of the prerelease: the channel label of a prerelease tag
Label(ver) == Split(ver.prerelease, ".")[1]

Stables(names) == { ver \in ValidVersions(names) : ver.prerelease = <<>> }

Labelled(names, label) ==
    { ver \in ValidVersions(names) : ver.prerelease # <<>> /\ Label(ver) = label }

\* the latest stable version, the initial version 0.1.0 when there is none
LatestStable(names) ==
    IF Stables(names) = {} THEN VersionInfo(0, 1, 0, <<>>) ELSE Highest(Stables(names))

\* the label of a prerelease channel
LabelOf(channel) == IF channel = RELEASE_CANDIDATE THEN RC ELSE BETA

\* the run has computed its version
Generated == pc = "generated"

(***************************************************************************)
(* C1 .. C5: the version the engine is specified to return                 *)
(***************************************************************************)

\* C1: the version generate_new_version returns has precedence strictly above
\* every valid version among the tags (so it equals none of them).
C1_AboveEveryTag ==
    Generated => \A ver \in ValidVersions(refs) : Compare(new_version, ver) = 1

\* C2: for channel release, when there is a release-candidate tag, the result
\* is the major.minor.patch of the highest rc tag, without prerelease and
\* without any bump.
C2_ReleasePromotesRc ==
    (Generated /\ args.channel = RELEASE /\ Labelled(refs, RC) # {})
        => new_version = [Highest(Labelled(refs, RC)) EXCEPT !.prerelease = <<>>]

\* C3: with no valid version tag, release/patch returns exactly 0.1.0.
C3_SentinelOnEmptyHistory ==
    (Generated /\ args.channel = RELEASE /\ args.bump = "patch"
        /\ LenientVersions(refs) = {})
        => new_version = VersionInfo(0, 1, 0, <<>>)

\* C4: for channel release, with no rc tag and at least one stable tag, the
\* base is the latest stable version and the result is that version bumped.
C4_ReleaseFallsBackToStable ==
    (Generated /\ args.channel = RELEASE /\ Labelled(refs, RC) = {} /\ Stables(refs) # {})
        => /\ base_version = Highest(Stables(refs))
           /\ new_version = Bump(Highest(Stables(refs)), args.bump)

\* C5: for channel release-candidate, the base is the highest beta tag whose
\* major.minor.patch is that of the latest stable bumped as requested, and the
\* latest stable when there is no such beta tag.
C5_RcAnchorsOnTargetBeta ==
    LET target == Bump(LatestStable(refs), args.bump)
        betas  == { ver \in Labelled(refs, BETA) : Core(ver) = Core(target) }
    IN  (Generated /\ args.channel = RELEASE_CANDIDATE)
            => base_version = IF betas # {} THEN Highest(betas) ELSE LatestStable(refs)

(***************************************************************************)
(* C6: the prerelease ordinal                                              *)
(***************************************************************************)

\* the largest of a finite set of integers and 0
MaxOrZero(nums) == CHOOSE n \in nums \cup {0} : \A m \in nums \cup {0} : m <= n

\* the text of a tag name after a prefix it starts with
After(name, prefix) == SubSeq(name, Len(prefix) + 1, Len(name))

\* the ordinals n of the tags named exactly v<core>-<label>.<n>
ExactOrdinals(names, core, label) ==
    LET prefix == <<"v">> \o core \o <<"-">> \o label \o <<".">>
    IN  { DigitsToNat(After(t, prefix)) :
            t \in { u \in names : StartsWith(u, prefix) /\ IsNumericId(After(u, prefix)) } }

\* the integers that are the second prerelease identifier of a valid version
\* tag with the given major.minor.patch and the given label as the first
\* identifier, whatever identifiers follow
SecondIdentifiers(names, core, label) ==
    { PyInt(Split(ver.prerelease, ".")[2]) :
        ver \in { w \in Labelled(names, label) :
                    /\ Core(w) = core
                    /\ Len(Split(w.prerelease, ".")) >= 2
                    /\ IntParses(Split(w.prerelease, ".")[2]) } }

\* C6 as stated: for a beta or release-candidate request the returned
\* prerelease is <label>.<N+1>, N being the largest n among the tags named
\* exactly v<core>-<label>.<n> for the post-bump core, and 0 when there is none.
C6_OrdinalOfExactNames ==
    (Generated /\ args.channel # RELEASE)
        => new_version.prerelease =
              LabelOf(args.channel) \o <<".">> \o
              NatToStr(MaxOrZero(ExactOrdinals(refs,
                  Str([new_version EXCEPT !.prerelease = <<>>]), LabelOf(args.channel))) + 1)

\* C6 amended: the returned prerelease is <label>.<N+1>, N being the largest
\* integer second identifier (or 0) among the valid version tags with the
\* post-bump core and the channel's label: v0.1.1-beta.2.x counts as 2,
\* v0.1.1-beta.x is ignored, v0.1.1-beta.-1 does not lower N below 0.
C6_OrdinalOfSecondIdentifier ==
    (Generated /\ args.channel # RELEASE)
        => new_version.prerelease =
              LabelOf(args.channel) \o <<".">> \o
              NatToStr(MaxOrZero(SecondIdentifiers(refs, Core(new_version),
                                                   LabelOf(args.channel))) + 1)

\* a prerelease request on a repository holding, for the post-bump core and
\* label, a counted tag and a tag whose ordinal is no integer
C6_Witness ==
    /\ Generated
    /\ args.channel # RELEASE
    /\ SecondIdentifiers(refs, Core(new_version), LabelOf(args.channel)) # {}
    /\ \E ver \in Labelled(refs, LabelOf(args.channel)) :
          /\ Core(ver) = Core(new_version)
          /\ Len(Split(ver.prerelease, ".")) >= 2
          /\ ~IntParses(Split(ver.prerelease, ".")[2])
    /\ new_version.prerelease # LabelOf(args.channel) \o <<".", "1">>

(***************************************************************************)
(* C7: repeating a published prerelease request                            *)
(***************************************************************************)

\* the ordinal of a version generate_new_version labelled
Ordinal(ver) == PyInt(Split(ver.prerelease, ".")[2])

\* the run repeats the request of the latest published run, a prerelease one
RepeatsPublished ==
    /\ Generated
    /\ args.channel # RELEASE
    /\ last_published.bump = args.bump
    /\ last_published.channel = args.channel

\* C7: when a prerelease request is run, its result published as a tag, and
\* the same request run again on the resulting tags, the second result has the
\* major.minor.patch of the first and the next ordinal.
C7_RepeatKeepsCore ==
    RepeatsPublished
        => /\ Core(new_version) = Core(last_published.version)
           /\ Ordinal(new_version) = Ordinal(last_published.version) + 1

\* a second run has repeated a published prerelease request
C7_Witness == RepeatsPublished /\ runs = 2 /\ TagName(last_published.version) \in refs

(***************************************************************************)
(* C8: which tags count                                                    *)
(***************************************************************************)

\* the tags named "v" + a valid semantic version
Conforming(names) == { t \in names : StartsWith(t, <<"v">>) /\ IsValid(DropFirst(t)) }

\* C8 as stated: the result is decided by the versions of the tags that parse
\* after stripping one leading 'v' when present, so a tag 1.2.3 counts as v1.2.3.
C8_LenientTagsCount ==
    Generated
        => new_version =
              generate_new_version({ TagName(ver) : ver \in LenientVersions(refs) },
                                   args.bump, args.channel)

\* C8 amended: the base and the result are those of the repository with every
\* tag removed that is not "v" + a valid semantic version (1.2.3, x2.0.0,
\* not-a-version, v0.9).
C8_OnlyVTagsCount ==
    Generated
        => /\ base_version = get_base_version_by_channel(Conforming(refs), args.channel)
           /\ new_version = generate_new_version(Conforming(refs), args.bump, args.channel)

\* a version was generated on a repository holding a valid version tag and a
\* tag that is not "v" + a valid version
C8_Witness ==
    /\ Generated
    /\ Conforming(refs) # {}
    /\ refs \ Conforming(refs) # {}
    /\ base_version # VersionInfo(0, 1, 0, <<>>)

(***************************************************************************)
(* C9: an unsupported channel                                              *)
(***************************************************************************)

\* C9: generate_new_version called with a channel outside beta,
\* release-candidate, release returns no version.
C9_UnsupportedChannelRefused ==
    ~(pc = "returned" /\ args.channel \notin Channels /\ new_version # NoVersion)

(***************************************************************************)
(* C10: what a run of main() changes, and when                             *)
(***************************************************************************)

\* C10: a dry run changes no ref, creates no tag object and writes no output;
\* a ref is created only for new_tag and after its tag object; new_tag is
\* written to the output only after the tag object and the ref; and a run ends
\* with status 0 only when it was a dry run or did all three (an exception
\* ends it with status 1).
C10_RunEffects ==
    [][ /\ (pc # "start" /\ args.dry_run)
            => (refs' = refs /\ tag_objects' = {} /\ output' = <<>>)
        /\ refs' # refs
            => (new_tag \in tag_objects /\ refs' = refs \cup {new_tag})
        /\ Len(output') > Len(output)
            => (new_tag \in tag_objects /\ new_tag \in refs
                /\ output' = Append(output, new_tag))
        /\ (pc' = "exit" /\ exit_status' = 0 /\ ~args'.dry_run)
            => (new_tag' \in tag_objects' /\ new_tag' \in refs'
                /\ output' = << new_tag' >>)
        /\ (pc' = "exit" /\ pc \in {"parsed", "tagged"})
            => exit_status' = 1
      ]_vars

\* a run without --dry-run has ended with status 0
C10_Witness ==
    /\ pc = "exit"
    /\ exit_status = 0
    /\ ~args.dry_run
    /\ output = << new_tag >>

=============================================================================
